---- MODULE Spec2Model ----
(***************************************************************************)
(* A model of fun_stuff/expression_string_optimizer.py: the operator       *)
(* catalog, the string expressions and their evaluation, and the           *)
(* ExpressionOptimizer with its two indices and its round procedure.       *)
(*                                                                         *)
(* An expression string is modelled as the sequence of its lexical tokens  *)
(* ("True", "(", ")", and the operator symbols), and evaluate() as a       *)
(* parser and interpreter over that token sequence.  The two dictionaries  *)
(* of the optimizer and the dictionary a client obtained from a snapshot   *)
(* call are objects in a small heap, so that a returned dictionary can, in *)
(* principle, be the optimizer's own.  Lists and Expression objects are    *)
(* values: the program never updates one in place.                         *)
(***************************************************************************)
EXTENDS Integers, Sequences, FiniteSets, TLC

\* ------------------------------------------------------------------------
\* Bounds of the model
\* ------------------------------------------------------------------------

\* Rounds are only started while the ceiling is below MaxCeiling.
MaxCeiling == 7

\* CPython raises OverflowError ("too many digits in integer") when a
\* non-zero integer is shifted left by a count it cannot represent.  The
\* model raises it for every count above MaxShiftCount.
MaxShiftCount == 2

\* ------------------------------------------------------------------------
\* OPERATORS
\* ------------------------------------------------------------------------

\* The enumerations, in definition order (iteration order of the Enum).
UnaryOperator ==
    << [kind |-> "UnaryOperator", name |-> "MINUS",       value |-> "-"],
       [kind |-> "UnaryOperator", name |-> "BITWISE_NOT", value |-> "~"] >>

BinaryNonCommutativeOperator ==
    << [kind |-> "BinaryNonCommutativeOperator", name |-> "BIT_SHIFT_LEFT",  value |-> "<<"],
       [kind |-> "BinaryNonCommutativeOperator", name |-> "BIT_SHIFT_RIGHT", value |-> ">>"],
       [kind |-> "BinaryNonCommutativeOperator", name |-> "SUBTRACT",        value |-> "-"],
       [kind |-> "BinaryNonCommutativeOperator", name |-> "EXPONENTIATE",    value |-> "**"],
       [kind |-> "BinaryNonCommutativeOperator", name |-> "INT_DIVIDE",      value |-> "//"],
       [kind |-> "BinaryNonCommutativeOperator", name |-> "MODULO",          value |-> "%"] >>

BinaryCommutativeOperator ==
    << [kind |-> "BinaryCommutativeOperator", name |-> "ADD",         value |-> "+"],
       [kind |-> "BinaryCommutativeOperator", name |-> "MULTIPLY",    value |-> "*"],
       [kind |-> "BinaryCommutativeOperator", name |-> "BITWISE_AND", value |-> "&"],
       [kind |-> "BinaryCommutativeOperator", name |-> "BITWISE_OR",  value |-> "|"],
       [kind |-> "BinaryCommutativeOperator", name |-> "BITWISE_XOR", value |-> "^"] >>

\* isinstance(operator, UnaryOperator) / isinstance(operator, BinaryOperator)
IsUnaryOperator(operator) == operator.kind = "UnaryOperator"

IsBinaryOperator(operator) ==
    operator.kind \in {"BinaryNonCommutativeOperator", "BinaryCommutativeOperator"}

\* ------------------------------------------------------------------------
\* Integer arithmetic of the interpreter that eval() runs the strings on
\* ------------------------------------------------------------------------

RECURSIVE Pow(_, _)
Pow(b, e) == IF e = 0 THEN 1 ELSE b * Pow(b, e - 1)

\* floor division and the matching remainder (sign of the divisor)
FloorDiv(a, b) == IF b > 0 THEN a \div b ELSE (0 - a) \div (0 - b)

FloorMod(a, b) == a - b * FloorDiv(a, b)

\* Bitwise operations on two's-complement integers of unbounded width.
RECURSIVE BitAnd(_, _)
BitAnd(a, b) ==
    IF a = 0 \/ b = 0 THEN 0
    ELSE IF a = -1 THEN b
    ELSE IF b = -1 THEN a
    ELSE (a % 2) * (b % 2) + 2 * BitAnd(a \div 2, b \div 2)

BitNot(a) == 0 - a - 1

BitOr(a, b) == BitNot(BitAnd(BitNot(a), BitNot(b)))

BitXor(a, b) == BitAnd(BitOr(a, b), BitNot(BitAnd(a, b)))

\* The outcome of an evaluation: a value, or the exception it raised.
Ok(v) == [raised |-> "none", value |-> v]

Raise(exc) == [raised |-> exc, value |-> 0]

\* Variant: the bitwise complement is computed as a negation.
ApplyUnaryAsMinus(sym, a) == Ok(0 - a)

ApplyUnary(sym, a) ==
    IF sym = "-" THEN Ok(0 - a) ELSE Ok(BitNot(a))

ApplyBinary(sym, a, b) ==
    CASE sym = "+"  -> Ok(a + b)
      [] sym = "*"  -> Ok(a * b)
      [] sym = "&"  -> Ok(BitAnd(a, b))
      [] sym = "|"  -> Ok(BitOr(a, b))
      [] sym = "^"  -> Ok(BitXor(a, b))
      [] sym = "-"  -> Ok(a - b)
      [] sym = "<<" -> IF b < 0 THEN Raise("ValueError")
                       ELSE IF a = 0 THEN Ok(0)
                       ELSE IF b > MaxShiftCount THEN Raise("OverflowError")
                       ELSE Ok(a * Pow(2, b))
      [] sym = ">>" -> IF b < 0 THEN Raise("ValueError")
                       ELSE Ok(FloorDiv(a, Pow(2, b)))
      [] sym = "//" -> IF b = 0 THEN Raise("ZeroDivisionError")
                       ELSE Ok(FloorDiv(a, b))
      [] sym = "%"  -> IF b = 0 THEN Raise("ZeroDivisionError")
                       ELSE Ok(FloorMod(a, b))
      \* A negative exponent raises for a zero base and otherwise gives a
      \* float, which is outside this integer model.
      [] sym = "**" -> IF b >= 0 THEN Ok(Pow(a, b))
                       ELSE IF a = 0 THEN Raise("ZeroDivisionError")
                       ELSE Raise("NotAnInteger")

\* ------------------------------------------------------------------------
\* EXPRESSIONS
\* ------------------------------------------------------------------------

None == [class |-> "NoneType"]

TypeError == [class |-> "TypeError"]

\* Variant: the base expression costs nothing.
TrueExpressionScoreZero ==
    [class |-> "TrueExpression", string |-> <<"True">>, score |-> 0]

\* TrueExpression.__init__: super().__init__('True', 1)
TrueExpression ==
    [class |-> "TrueExpression", string |-> <<"True">>, score |-> 1]

\* Variant: the score of a unary composite omits the operator.
CompositeExpressionUnaryNoCost(operator, expr_1, expr_2) ==
    IF expr_2 = None
    THEN IF ~IsUnaryOperator(operator) THEN TypeError
         ELSE [class  |-> "CompositeExpression",
               string |-> <<operator.value, "(">> \o expr_1.string \o <<")">>,
               score  |-> expr_1.score]
    ELSE IF ~IsBinaryOperator(operator) THEN TypeError
         ELSE [class  |-> "CompositeExpression",
               string |-> <<"(">> \o expr_1.string \o <<")", operator.value, "(">>
                          \o expr_2.string \o <<")">>,
               score  |-> expr_1.score + expr_2.score + 1]

\* Variant: the score of a binary composite omits the operator.
CompositeExpressionNoOperatorCost(operator, expr_1, expr_2) ==
    IF expr_2 = None
    THEN IF ~IsUnaryOperator(operator) THEN TypeError
         ELSE [class  |-> "CompositeExpression",
               string |-> <<operator.value, "(">> \o expr_1.string \o <<")">>,
               score  |-> expr_1.score + 1]
    ELSE IF ~IsBinaryOperator(operator) THEN TypeError
         ELSE [class  |-> "CompositeExpression",
               string |-> <<"(">> \o expr_1.string \o <<")", operator.value, "(">>
                          \o expr_2.string \o <<")">>,
               score  |-> expr_1.score + expr_2.score]

\* CompositeExpression.__init__: f"{op}({e1})" or f"({e1}){op}({e2})"
CompositeExpression(operator, expr_1, expr_2) ==
    IF expr_2 = None
    THEN IF ~IsUnaryOperator(operator) THEN TypeError
         ELSE [class  |-> "CompositeExpression",
               string |-> <<operator.value, "(">> \o expr_1.string \o <<")">>,
               score  |-> expr_1.score + 1]
    ELSE IF ~IsBinaryOperator(operator) THEN TypeError
         ELSE [class  |-> "CompositeExpression",
               string |-> <<"(">> \o expr_1.string \o <<")", operator.value, "(">>
                          \o expr_2.string \o <<")">>,
               score  |-> expr_1.score + expr_2.score + 1]

\* Position of the ")" that closes the parenthesis opened at or after i.
RECURSIVE MatchParen(_, _, _)
MatchParen(s, i, depth) ==
    IF s[i] = "(" THEN MatchParen(s, i + 1, depth + 1)
    ELSE IF s[i] = ")"
         THEN IF depth = 1 THEN i ELSE MatchParen(s, i + 1, depth - 1)
         ELSE MatchParen(s, i + 1, depth)

\* The three shapes a string built by the constructors can have.
IsUnaryString(s) == Len(s) > 1 /\ s[1] \in {"-", "~"}

IsBinaryString(s) == Len(s) > 1 /\ s[1] = "("

LeftOperand(s) == SubSeq(s, 2, MatchParen(s, 1, 0) - 1)

BinarySymbol(s) == s[MatchParen(s, 1, 0) + 1]

RightOperand(s) == SubSeq(s, MatchParen(s, 1, 0) + 3, Len(s) - 1)

UnaryOperand(s) == SubSeq(s, 3, Len(s) - 1)

\* eval(string): the operands are evaluated left to right, and the first
\* exception ends the evaluation.
RECURSIVE EvalString(_)
EvalString(s) ==
    IF s = <<"True">> THEN Ok(1)
    ELSE IF IsUnaryString(s)
    THEN LET r == EvalString(UnaryOperand(s)) IN
         IF r.raised # "none" THEN r ELSE ApplyUnary(s[1], r.value)
    ELSE LET l == EvalString(LeftOperand(s)) IN
         IF l.raised # "none" THEN l
         ELSE LET r == EvalString(RightOperand(s)) IN
              IF r.raised # "none" THEN r
              ELSE ApplyBinary(BinarySymbol(s), l.value, r.value)

\* Expression.evaluate
evaluate(expr) == EvalString(expr.string)

\* ------------------------------------------------------------------------
\* Lists and dictionaries
\* ------------------------------------------------------------------------

RECURSIVE Concat(_)
Concat(seqs) == IF seqs = <<>> THEN <<>> ELSE Head(seqs) \o Concat(Tail(seqs))

EmptyDict == <<>>

\* d[k] = v
DictSet(d, k, v) == [x \in DOMAIN d \cup {k} |-> IF x = k THEN v ELSE d[x]]

\* d.get(k, default)
DictGet(d, k, default) == IF k \in DOMAIN d THEN d[k] ELSE default

\* ------------------------------------------------------------------------
\* OPTIMIZER: the fields of an ExpressionOptimizer, as the record self
\*   max_score, min_s_exprs (score -> list), targs (value -> expression),
\* together with the outcome of the call in progress (raised, ret).
\* ------------------------------------------------------------------------

\* ExpressionOptimizer.__init__
NewOptimizer ==
    [max_score   |-> 1,
     min_s_exprs |-> DictSet(EmptyDict, 1, <<TrueExpression>>),
     targs       |-> DictSet(EmptyDict, 1, TrueExpression),
     raised      |-> "none",
     ret         |-> 0]

\* _get_score_exprs: self._min_s_exprs[score], a KeyError when absent
get_score_exprs(self, score) ==
    IF score \in DOMAIN self.min_s_exprs
    THEN [raised |-> "none", exprs |-> self.min_s_exprs[score]]
    ELSE [raised |-> "KeyError", exprs |-> <<>>]

\* Variant: the new expression is filed under the score below its own.
add_expr_wrong_bucket(self, expr) ==
    LET r == evaluate(expr) IN
    IF r.raised # "none" THEN [self EXCEPT !.raised = r.raised]
    ELSE IF r.value \in DOMAIN self.targs THEN self
    ELSE [self EXCEPT
            !.targs = DictSet(self.targs, r.value, expr),
            !.min_s_exprs = DictSet(self.min_s_exprs, expr.score - 1,
                               DictGet(self.min_s_exprs, expr.score - 1, <<>>) \o <<expr>>)]

\* Variant: the new expression is not entered in the Score Index.
add_expr_targs_only(self, expr) ==
    LET r == evaluate(expr) IN
    IF r.raised # "none" THEN [self EXCEPT !.raised = r.raised]
    ELSE IF r.value \in DOMAIN self.targs THEN self
    ELSE [self EXCEPT !.targs = DictSet(self.targs, r.value, expr)]

\* Variant: the candidate is stored whether or not its value is known.
add_expr_always(self, expr) ==
    LET r == evaluate(expr) IN
    IF r.raised # "none" THEN [self EXCEPT !.raised = r.raised]
    ELSE [self EXCEPT
            !.targs = DictSet(self.targs, r.value, expr),
            !.min_s_exprs = DictSet(self.min_s_exprs, expr.score,
                               DictGet(self.min_s_exprs, expr.score, <<>>) \o <<expr>>)]

\* _add_expr_if_better
add_expr_if_better(self, expr) ==
    LET r == evaluate(expr) IN
    IF r.raised # "none" THEN [self EXCEPT !.raised = r.raised]
    ELSE IF r.value \in DOMAIN self.targs THEN self
    ELSE [self EXCEPT
            !.targs = DictSet(self.targs, r.value, expr),
            !.min_s_exprs = DictSet(self.min_s_exprs, expr.score,
                               DictGet(self.min_s_exprs, expr.score, <<>>) \o <<expr>>)]

\* increase_max_score, "Unary operators"
UnaryCandidates(self) ==
    LET exprs == self.min_s_exprs[self.max_score] IN
    Concat([i \in 1..Len(exprs) |->
              [j \in 1..Len(UnaryOperator) |->
                  CompositeExpression(UnaryOperator[j], exprs[i], None)]])

\* Variant: the values are compared with < instead of <=.
CommutativeCandidatesStrict(expr_1, expr_2) ==
    IF evaluate(expr_1).value < evaluate(expr_2).value
    THEN [j \in 1..Len(BinaryCommutativeOperator) |->
             CompositeExpression(BinaryCommutativeOperator[j], expr_1, expr_2)]
    ELSE <<>>

\* increase_max_score, "Commutative operators (no need calculate both ways)"
CommutativeCandidates(expr_1, expr_2) ==
    IF evaluate(expr_1).value <= evaluate(expr_2).value
    THEN [j \in 1..Len(BinaryCommutativeOperator) |->
             CompositeExpression(BinaryCommutativeOperator[j], expr_1, expr_2)]
    ELSE <<>>

\* The left-hand side of the comparison
\*   ((op in [BIT_SHIFT_LEFT, BIT_SHIFT_RIGHT]) and expr_2.evaluate()) <= 0
\* `and` yields its left operand when that is false, so for an operator that
\* is not a shift the compared value is False, which is 0.
ShiftGuardValue(op, expr_2) ==
    IF op \in {BinaryNonCommutativeOperator[1], BinaryNonCommutativeOperator[2]}
    THEN evaluate(expr_2).value
    ELSE 0

\* Variant: the guard looks at the left operand instead of the right one.
NonCommutativeCandidatesGuardLeft(expr_1, expr_2) ==
    Concat([j \in 1..Len(BinaryNonCommutativeOperator) |->
              IF ShiftGuardValue(BinaryNonCommutativeOperator[j], expr_1) <= 0
              THEN <<>>
              ELSE <<CompositeExpression(BinaryNonCommutativeOperator[j], expr_1, expr_2)>>])

\* increase_max_score, "Non-commutative operators"
NonCommutativeCandidates(expr_1, expr_2) ==
    Concat([j \in 1..Len(BinaryNonCommutativeOperator) |->
              IF ShiftGuardValue(BinaryNonCommutativeOperator[j], expr_2) <= 0
              THEN <<>>
              ELSE <<CompositeExpression(BinaryNonCommutativeOperator[j], expr_1, expr_2)>>])

\* score_2 = self._max_score - score_1
Score2(self, score_1) == self.max_score - score_1

\* increase_max_score, the loops over score_1, expr_1 and expr_2
BinaryCandidates(self) ==
    Concat([score_1 \in 1..(self.max_score - 1) |->
      LET exprs_1 == self.min_s_exprs[score_1]
          exprs_2 == self.min_s_exprs[Score2(self, score_1)]
      IN Concat([i \in 1..Len(exprs_1) |->
           Concat([k \in 1..Len(exprs_2) |->
              CommutativeCandidates(exprs_1[i], exprs_2[k])
              \o NonCommutativeCandidates(exprs_1[i], exprs_2[k])])])])

\* Variant: the binary block is generated before the unary block.
NewExprsBinaryFirst(self) == BinaryCandidates(self) \o UnaryCandidates(self)

\* new_exprs at the end of the generation loops
NewExprs(self) == UnaryCandidates(self) \o BinaryCandidates(self)

\* for new_expr in new_exprs: self._add_expr_if_better(new_expr)
\* An exception leaves the loop with the admissions made so far.
RECURSIVE AddAll(_, _, _)
AddAll(self, new_exprs, i) ==
    IF i > Len(new_exprs) \/ self.raised # "none" THEN self
    ELSE AddAll(add_expr_if_better(self, new_exprs[i]), new_exprs, i + 1)

\* Variant: the ceiling is raised by two.
IncrementMaxScoreByTwo(self) == [self EXCEPT !.max_score = self.max_score + 2]

\* self._max_score += 1
IncrementMaxScore(self) == [self EXCEPT !.max_score = self.max_score + 1]

\* Variant: the length returned is that of the bucket below the new ceiling.
ReturnPreviousBucketLen(self) ==
    LET bucket == get_score_exprs(self, self.max_score - 1) IN
    IF bucket.raised # "none" THEN [self EXCEPT !.raised = bucket.raised]
    ELSE [self EXCEPT !.ret = Len(bucket.exprs)]

\* return len(self._get_score_exprs(self._max_score))
ReturnBucketLen(self) ==
    LET bucket == get_score_exprs(self, self.max_score) IN
    IF bucket.raised # "none" THEN [self EXCEPT !.raised = bucket.raised]
    ELSE [self EXCEPT !.ret = Len(bucket.exprs)]

\* increase_max_score
increase_max_score(self0) ==
    LET self == [self0 EXCEPT !.raised = "none", !.ret = 0] IN
    IF \E s \in 1..self.max_score : s \notin DOMAIN self.min_s_exprs
    THEN [self EXCEPT !.raised = "KeyError"]
    ELSE LET admitted == AddAll(self, NewExprs(self), 1) IN
         IF admitted.raised # "none" THEN admitted
         ELSE ReturnBucketLen(IncrementMaxScore(admitted))

\* ------------------------------------------------------------------------
\* The heap of dictionary objects, and copy.deepcopy
\* ------------------------------------------------------------------------

\* References: the dictionary bound to self._min_s_exprs, the one bound to
\* self._targs, and the one a deepcopy call creates.
MinSExprsRef == "min_s_exprs"

TargsRef == "targs"

CopyRef == "copy"

\* Variant: the contents are moved into the new dictionary.
deepcopy_move(h, ref) ==
    [heap |-> [h EXCEPT ![CopyRef] = h[ref], ![ref] = EmptyDict], ref |-> CopyRef]

\* Variant: the dictionary itself is returned instead of a copy.
deepcopy_alias(h, ref) == [heap |-> h, ref |-> ref]

\* copy.deepcopy(h[ref]): a new dictionary object with equal contents; the
\* lists and expressions in it are new objects too, which the model has as
\* values.
deepcopy(h, ref) == [heap |-> [h EXCEPT ![CopyRef] = h[ref]], ref |-> CopyRef]

\* ------------------------------------------------------------------------
\* State
\* ------------------------------------------------------------------------

VARIABLES
    max_score,   \* self._max_score
    heap,        \* the dictionary objects, by reference
    snapshot,    \* the dictionary the client got from a snapshot call
    result,      \* the last operation and its outcome
    rounds       \* number of increase_max_score calls that returned

vars == <<max_score, heap, snapshot, result, rounds>>

\* The optimizer object as the record the operators above work on.
Self ==
    [max_score   |-> max_score,
     min_s_exprs |-> heap[MinSExprsRef],
     targs       |-> heap[TargsRef],
     raised      |-> "none",
     ret         |-> 0]

NoSnapshot == [kind |-> "none", ref |-> "none"]

NoResult == [op |-> "none", arg |-> 0, raised |-> "none", ret |-> 0, exprs |-> <<>>]

\* optimizer = ExpressionOptimizer()
Init ==
    /\ max_score = NewOptimizer.max_score
    /\ heap = [min_s_exprs |-> NewOptimizer.min_s_exprs,
               targs       |-> NewOptimizer.targs,
               copy        |-> EmptyDict]
    /\ snapshot = NoSnapshot
    /\ result = NoResult
    /\ rounds = 0

\* ------------------------------------------------------------------------
\* Operations
\* ------------------------------------------------------------------------

\* optimizer.increase_max_score(): the two dictionaries are updated in place
IncreaseMaxScore ==
    /\ max_score < MaxCeiling
    /\ LET out == increase_max_score(Self) IN
         /\ result' = [op |-> "increase_max_score", arg |-> 0,
                       raised |-> out.raised, ret |-> out.ret, exprs |-> <<>>]
         /\ UNCHANGED snapshot
         /\ max_score' = out.max_score
         /\ rounds' = IF out.raised = "none" THEN rounds + 1 ELSE rounds
         /\ heap' = [heap EXCEPT ![MinSExprsRef] = out.min_s_exprs,
                                 ![TargsRef] = out.targs]

\* optimizer._get_score_exprs(score)
GetScoreExprs ==
    \E score \in 1..(MaxCeiling + 1) :
        LET out == get_score_exprs(Self, score) IN
        /\ result' = [op |-> "_get_score_exprs", arg |-> score,
                      raised |-> out.raised, ret |-> 0, exprs |-> out.exprs]
        /\ UNCHANGED <<max_score, heap, snapshot, rounds>>

\* snapshot = optimizer.get_min_s_exprs()
GetMinSExprs ==
    LET c == deepcopy(heap, MinSExprsRef) IN
    /\ heap' = c.heap
    /\ snapshot' = [kind |-> "by_score", ref |-> c.ref]
    /\ result' = [NoResult EXCEPT !.op = "get_min_s_exprs"]
    /\ UNCHANGED <<max_score, rounds>>

\* snapshot = optimizer.get_targ_exprs()
GetTargExprs ==
    LET c == deepcopy(heap, TargsRef) IN
    /\ heap' = c.heap
    /\ snapshot' = [kind |-> "by_value", ref |-> c.ref]
    /\ result' = [NoResult EXCEPT !.op = "get_targ_exprs"]
    /\ UNCHANGED <<max_score, rounds>>

\* The client empties the dictionary it holds: snapshot.clear()
SnapshotClear ==
    /\ snapshot.kind # "none"
    /\ heap' = [heap EXCEPT ![snapshot.ref] = EmptyDict]
    /\ result' = [NoResult EXCEPT !.op = "snapshot.clear"]
    /\ UNCHANGED <<max_score, snapshot, rounds>>

\* The client overwrites the entry of key 1 of the dictionary it holds:
\* snapshot[1] = [] (by score) or snapshot[1] = None (by value)
SnapshotSetItem ==
    /\ snapshot.kind # "none"
    /\ heap' = [heap EXCEPT ![snapshot.ref] =
                   DictSet(heap[snapshot.ref], 1,
                           IF snapshot.kind = "by_score" THEN <<>> ELSE None)]
    /\ result' = [NoResult EXCEPT !.op = "snapshot.setitem"]
    /\ UNCHANGED <<max_score, snapshot, rounds>>

Next ==
    \/ IncreaseMaxScore
    \/ GetScoreExprs
    \/ GetMinSExprs
    \/ GetTargExprs
    \/ SnapshotClear
    \/ SnapshotSetItem

Spec == Init /\ [][Next]_vars

\* ------------------------------------------------------------------------
\* Views of the state used by the properties
\* ------------------------------------------------------------------------

\* The Score Index and the Target Index of the optimizer
MinSExprs == heap[MinSExprsRef]

Targs == heap[TargsRef]

\* Every expression kept in one of the two indices
Admitted ==
    {Targs[v] : v \in DOMAIN Targs}
    \cup UNION {{MinSExprs[s][i] : i \in 1..Len(MinSExprs[s])} : s \in DOMAIN MinSExprs}

\* The candidates a round started in the current state generates
GenerationDefined == \A s \in 1..max_score : s \in DOMAIN MinSExprs

Candidates ==
    IF GenerationDefined
    THEN LET new_exprs == NewExprs(Self) IN {new_exprs[i] : i \in 1..Len(new_exprs)}
    ELSE {}

\* new_exprs of a round started in the current state, in generation order
CandidateSeq == IF GenerationDefined THEN NewExprs(Self) ELSE <<>>

\* The operand pairs (expr_1, expr_2) the binary loops of such a round visit
OperandPairs ==
    IF GenerationDefined
    THEN UNION {{<<MinSExprs[score_1][i], MinSExprs[Score2(Self, score_1)][k]>> :
                    i \in 1..Len(MinSExprs[score_1]),
                    k \in 1..Len(MinSExprs[Score2(Self, score_1)])} :
                score_1 \in 1..(max_score - 1)}
    ELSE {}

\* The mapping a call of get_targ_exprs made in the current state returns
NextTargExprs ==
    LET c == deepcopy(heap, TargsRef) IN c.heap[c.ref]

\* The dictionary the client holds
SnapshotDict == IF snapshot.kind = "none" THEN EmptyDict ELSE heap[snapshot.ref]

OptimizerState == <<max_score, heap[MinSExprsRef], heap[TargsRef]>>

\* The values of the well-defined expressions over the whole catalog, by
\* score: CatalogValues(n)[k] is the set of values of expressions of score k,
\* for k in 1..n.  An operator application that raises is not well defined.
UnarySymbols == {UnaryOperator[j].value : j \in 1..Len(UnaryOperator)}

BinarySymbols ==
    {BinaryCommutativeOperator[j].value : j \in 1..Len(BinaryCommutativeOperator)}
    \cup {BinaryNonCommutativeOperator[j].value : j \in 1..Len(BinaryNonCommutativeOperator)}

UnaryValues(A) == {ApplyUnary(sym, a).value : sym \in UnarySymbols, a \in A}

BinaryValues(A, B) ==
    LET outcomes == {ApplyBinary(sym, a, b) : sym \in BinarySymbols, a \in A, b \in B}
    IN {r.value : r \in {x \in outcomes : x.raised = "none"}}

RECURSIVE CatalogValues(_)
CatalogValues(n) ==
    IF n = 1 THEN << {evaluate(TrueExpression).value} >>
    ELSE LET prev == CatalogValues(n - 1) IN
         Append(prev,
                UnaryValues(prev[n - 1])
                \cup UNION {BinaryValues(prev[s1], prev[n - 1 - s1]) : s1 \in 1..(n - 2)})

\* ------------------------------------------------------------------------
\* Properties
\* ------------------------------------------------------------------------

\* C1 (completeness): when the ceiling is N, every value of a well-defined
\* expression of score <= N over the whole catalog is a key of the Target
\* Index.
C1_Completeness ==
    LET values == CatalogValues(max_score) IN
    rounds + 1 = max_score =>
        \A n \in 1..max_score : values[n] \subseteq DOMAIN Targs

\* C2 (minimality): the expression stored under a value v has the smallest
\* score of any expression over the whole catalog that evaluates to v.
C2_Minimality ==
    LET values == CatalogValues(max_score + 1) IN
    \A v \in DOMAIN Targs :
        \A n \in 1..(max_score + 1) : n < Targs[v].score => v \notin values[n]

\* C3: every key of the Target Index is the value of the expression stored
\* under it, and no step replaces or removes an entry.
C3_TargetIndexStable ==
    /\ [](\A v \in DOMAIN Targs : evaluate(Targs[v]) = Ok(v))
    /\ [][\A v \in DOMAIN Targs : v \in DOMAIN Targs' /\ Targs'[v] = Targs[v]]_vars

\* A round has discarded candidates for values that already had an entry.
C3_Witness ==
    /\ rounds >= 2
    /\ \E c \in Candidates : evaluate(c).raised = "none"
                             /\ evaluate(c).value \in DOMAIN Targs

\* C4: the ceiling is 1 + the number of completed rounds, a completed round
\* raises it by exactly one, and no other step changes it.
C4_CeilingCountsRounds ==
    /\ [](max_score = 1 + rounds)
    /\ [][\/ max_score' = max_score /\ rounds' = rounds
          \/ max_score' = max_score + 1 /\ rounds' = rounds + 1
                /\ result'.op = "increase_max_score"]_vars

C4_Witness == rounds = 3 /\ max_score = 4 /\ result.op = "increase_max_score"

\* C5: a call of increase_max_score that returns, returns the number of
\* candidates it admitted into the Target Index, which is the length of the
\* Score Index bucket of the new ceiling.
C5_ReturnsAdmittedCount ==
    [][rounds' = rounds + 1 =>
          /\ result'.ret = Cardinality(DOMAIN Targs') - Cardinality(DOMAIN Targs)
          /\ result'.ret = Len(MinSExprs'[max_score'])]_vars

C5_Witness ==
    /\ result.op = "increase_max_score" /\ result.raised = "none"
    /\ result.ret = 3 /\ max_score = 6

\* C6 (worked example): initially only value 1 at score 1; after one round
\* the ceiling is 2 and -(True) = -1 and ~(True) = -2 are kept at score 2;
\* after two rounds the ceiling is 3 and the values 2 and 0 are kept, each
\* with an expression of score 3.
C6_WorkedExample ==
    /\ rounds = 0 =>
          /\ max_score = 1
          /\ DOMAIN Targs = {1} /\ Targs[1].string = <<"True">> /\ Targs[1].score = 1
          /\ DOMAIN MinSExprs = {1} /\ Len(MinSExprs[1]) = 1
    /\ rounds = 1 =>
          /\ max_score = 2
          /\ DOMAIN Targs = {1, -1, -2}
          /\ Targs[-1].string = <<"-", "(", "True", ")">> /\ Targs[-1].score = 2
          /\ Targs[-2].string = <<"~", "(", "True", ")">> /\ Targs[-2].score = 2
          /\ MinSExprs[2] = <<Targs[-1], Targs[-2]>>
    /\ rounds = 2 =>
          /\ max_score = 3
          /\ {2, 0} \subseteq DOMAIN Targs
          /\ Targs[2].score = 3 /\ evaluate(Targs[2]) = Ok(2)
          /\ Targs[0].score = 3 /\ evaluate(Targs[0]) = Ok(0)

C6_Witness == rounds = 2 /\ result.op = "increase_max_score"

\* No application of << or >> anywhere in the string s has a right-hand
\* operand that evaluates to a value <= 0.
RECURSIVE NoNonPositiveShift(_)
NoNonPositiveShift(s) ==
    IF s = <<"True">> THEN TRUE
    ELSE IF IsUnaryString(s) THEN NoNonPositiveShift(UnaryOperand(s))
    ELSE /\ BinarySymbol(s) \in {"<<", ">>"} =>
               /\ EvalString(RightOperand(s)).raised = "none"
               /\ EvalString(RightOperand(s)).value > 0
         /\ NoNonPositiveShift(LeftOperand(s))
         /\ NoNonPositiveShift(RightOperand(s))

\* C7 (shift guard): no expression in either index, and no candidate a round
\* generates, applies << or >> to a right-hand operand of value <= 0.
C7_ShiftGuard ==
    /\ \A e \in Admitted : NoNonPositiveShift(e.string)
    /\ \A c \in Candidates : NoNonPositiveShift(c.string)

\* A shift has been admitted, and the next round pairs it with operands of
\* value <= 0.
C7_Witness ==
    /\ \E e \in Admitted : IsBinaryString(e.string) /\ BinarySymbol(e.string) = "<<"
    /\ \E c \in Candidates : IsBinaryString(c.string) /\ BinarySymbol(c.string) = ">>"
    /\ \E s \in 1..(max_score - 1) : \E i \in 1..Len(MinSExprs[max_score - s]) :
          evaluate(MinSExprs[max_score - s][i]).value <= 0

\* C8 (score composition): the base expression has score 1; an admitted
\* unary composite has the score of its child + 1 and an admitted binary
\* composite the sum of the scores of its children + 1, the children being
\* the admitted expressions it was built from; every candidate of the round
\* that starts at ceiling c has score c + 1.
C8_ScoreComposition ==
    /\ \A e \in Admitted :
        IF e.string = <<"True">> THEN e.score = 1
        ELSE IF IsUnaryString(e.string)
        THEN \E a \in Admitted : /\ a.string = UnaryOperand(e.string)
                                 /\ e.score = a.score + 1
        ELSE \E a, b \in Admitted : /\ a.string = LeftOperand(e.string)
                                    /\ b.string = RightOperand(e.string)
                                    /\ e.score = a.score + b.score + 1
    /\ \A c \in Candidates : c.score = max_score + 1

C8_Witness ==
    /\ \E e \in Admitted : IsBinaryString(e.string) /\ e.score = 6
    /\ \E c \in Candidates : IsBinaryString(c.string)

\* C9 (score lookup): a lookup of a score above the ceiling fails with a
\* KeyError, and no bucket for a score above the ceiling exists.
C9_LookupAboveCeilingFails ==
    /\ (result.op = "_get_score_exprs" /\ result.arg > max_score)
          => result.raised = "KeyError"
    /\ \A s \in DOMAIN MinSExprs : s <= max_score

\* C10 (snapshot isolation): a round leaves the dictionary the client holds
\* unchanged, and a mutation of that dictionary leaves the ceiling and both
\* indices unchanged.
C10_SnapshotIsolation ==
    [][/\ result'.op = "increase_max_score"
              => SnapshotDict' = SnapshotDict
       /\ result'.op \in {"snapshot.clear", "snapshot.setitem"}
              => OptimizerState' = OptimizerState]_vars

\* A round has run while the client held a snapshot that it had mutated.
C10_Witness ==
    /\ snapshot.kind = "by_score"
    /\ DOMAIN SnapshotDict = {1} /\ SnapshotDict[1] = <<>>
    /\ result.op = "increase_max_score" /\ result.raised = "none"
    /\ max_score >= 3

\* C11 (snapshot idempotence): the mapping get_targ_exprs returned is equal
\* to the one a second call made right after it returns (same keys, and per
\* key the same text, score and value), and a call of get_targ_exprs changes
\* neither the ceiling nor either index.
C11_SnapshotIdempotent ==
    /\ [](result.op = "get_targ_exprs" =>
            /\ DOMAIN SnapshotDict = DOMAIN NextTargExprs
            /\ \A v \in DOMAIN SnapshotDict :
                  /\ SnapshotDict[v].string = NextTargExprs[v].string
                  /\ SnapshotDict[v].score = NextTargExprs[v].score
                  /\ evaluate(SnapshotDict[v]) = evaluate(NextTargExprs[v]))
    /\ [][result'.op = "get_targ_exprs" => OptimizerState' = OptimizerState]_vars

\* get_targ_exprs has just returned a mapping with several entries.
C11_Witness ==
    /\ result.op = "get_targ_exprs"
    /\ snapshot.kind = "by_value"
    /\ Cardinality(DOMAIN SnapshotDict) >= 5

\* C12 (noncommutative generation): for every operand pair a round visits
\* and every noncommutative operator, the candidate is generated, except a
\* shift whose right operand has a value <= 0.
C12_NonCommutativeGenerated ==
    \A pair \in OperandPairs :
        \A j \in 1..Len(BinaryNonCommutativeOperator) :
            LET op == BinaryNonCommutativeOperator[j] IN
            \/ op.value \in {"<<", ">>"} /\ evaluate(pair[2]).value <= 0
            \/ CompositeExpression(op, pair[1], pair[2]) \in Candidates

\* Number of positions of the sequence seq that hold a member of the set S
CountIn(seq, S) == Cardinality({i \in 1..Len(seq) : seq[i] \in S})

\* C13 (commutative pruning): for every operand pair a round visits and
\* every commutative operator, exactly one candidate applies the operator to
\* the pair, and its left operand has a value <= that of its right operand.
C13_CommutativeOnce ==
    LET new_exprs == CandidateSeq IN
    \A pair \in OperandPairs :
        \A j \in 1..Len(BinaryCommutativeOperator) :
            LET op == BinaryCommutativeOperator[j]
                one == CompositeExpression(op, pair[1], pair[2])
                other == CompositeExpression(op, pair[2], pair[1])
            IN /\ CountIn(new_exprs, {one, other}) = 1
               /\ \A c \in {x \in {one, other} : CountIn(new_exprs, {x}) > 0} :
                     EvalString(LeftOperand(c.string)).value
                        <= EvalString(RightOperand(c.string)).value

\* The round visits a pair of one expression with itself, and pairs of two
\* different expressions from one bucket and from two buckets.
C13_Witness ==
    /\ max_score = 6
    /\ \E pair \in OperandPairs : pair[1] = pair[2]
    /\ \E pair \in OperandPairs : pair[1] # pair[2] /\ pair[1].score = pair[2].score
    /\ \E pair \in OperandPairs : pair[1].score < pair[2].score

\* The place of a candidate in the enumeration order of a round started in
\* the current state: the unary block first (by expression of the ceiling's
\* bucket, then by operator), then the binary block by score_1, expr_1,
\* expr_2, commutative operators before noncommutative ones, then by
\* operator.
PositionIn(seq, str) == CHOOSE i \in 1..Len(seq) : seq[i].string = str

OperatorIndex(ops, sym) == CHOOSE j \in 1..Len(ops) : ops[j].value = sym

ScoreOfString(str) ==
    CHOOSE sc \in DOMAIN MinSExprs :
        \E i \in 1..Len(MinSExprs[sc]) : MinSExprs[sc][i].string = str

IsCommutativeSymbol(sym) ==
    \E j \in 1..Len(BinaryCommutativeOperator) : BinaryCommutativeOperator[j].value = sym

EnumerationKey(c) ==
    IF IsUnaryString(c.string)
    THEN << 0, 0,
            PositionIn(MinSExprs[max_score], UnaryOperand(c.string)),
            0, 0,
            OperatorIndex(UnaryOperator, c.string[1]) >>
    ELSE LET left == LeftOperand(c.string)
             right == RightOperand(c.string)
             sym == BinarySymbol(c.string)
         IN << 1,
               ScoreOfString(left),
               PositionIn(MinSExprs[ScoreOfString(left)], left),
               PositionIn(MinSExprs[ScoreOfString(right)], right),
               IF IsCommutativeSymbol(sym) THEN 0 ELSE 1,
               IF IsCommutativeSymbol(sym)
               THEN OperatorIndex(BinaryCommutativeOperator, sym)
               ELSE OperatorIndex(BinaryNonCommutativeOperator, sym) >>

\* lexicographic order on the keys
KeyLess(a, b) ==
    \E i \in 1..Len(a) : a[i] < b[i] /\ \A j \in 1..(i - 1) : a[j] = b[j]

\* C14 (first examined wins): the expression a round stores under a new
\* value is, among the candidates of the round that evaluate to that value,
\* the earliest in enumeration order, and none of the others is kept.
C14_FirstExaminedWins ==
    [][result'.op = "increase_max_score" =>
         \A v \in DOMAIN Targs' \ DOMAIN Targs :
            LET same == {c \in Candidates : evaluate(c) = Ok(v)} IN
            /\ Targs'[v] \in same
            /\ \A c \in same \ {Targs'[v]} :
                  /\ KeyLess(EnumerationKey(Targs'[v]), EnumerationKey(c))
                  /\ \A sc \in DOMAIN MinSExprs' :
                        \A i \in 1..Len(MinSExprs'[sc]) : MinSExprs'[sc][i] # c]_vars

\* The second round kept the unary candidates for 0 and 2 and discarded the
\* binary candidates (True)^(True) and (True)+(True), which came later.
C14_Witness ==
    /\ rounds = 2 /\ result.op = "increase_max_score"
    /\ IsUnaryString(Targs[0].string) /\ IsUnaryString(Targs[2].string)
    /\ ApplyBinary("^", 1, 1) = Ok(0) /\ ApplyBinary("+", 1, 1) = Ok(2)

\* The (value, expression) pairs held by the Score Index
IndexEntries ==
    UNION {{<<evaluate(MinSExprs[sc][i]).value, MinSExprs[sc][i]>> :
               i \in 1..Len(MinSExprs[sc])} : sc \in DOMAIN MinSExprs}

\* C15 (index consistency): every expression filed under a score has that
\* score, no value is held twice in the Score Index, and the Score Index and
\* the Target Index hold the same expressions under the same values.
C15_IndexConsistency ==
    /\ \A sc \in DOMAIN MinSExprs :
          \A i \in 1..Len(MinSExprs[sc]) :
             /\ MinSExprs[sc][i].score = sc
             /\ evaluate(MinSExprs[sc][i]).raised = "none"
    /\ \A sa \in DOMAIN MinSExprs, sb \in DOMAIN MinSExprs :
          \A i \in 1..Len(MinSExprs[sa]), k \in 1..Len(MinSExprs[sb]) :
             evaluate(MinSExprs[sa][i]) = evaluate(MinSExprs[sb][k])
                => (sa = sb /\ i = k)
    /\ IndexEntries = {<<v, Targs[v]>> : v \in DOMAIN Targs}

\* Several rounds have returned and the indexes hold expressions of several
\* scores, unary and binary ones among them.
C15_Witness ==
    /\ rounds >= 4
    /\ Cardinality(DOMAIN Targs) >= 9
    /\ \E v \in DOMAIN Targs : IsBinaryString(Targs[v].string)

\* C16 (additive growth): a round started at ceiling c leaves the buckets of
\* scores 1..c and the entries the Target Index already had as they were; it
\* only appends to bucket c + 1 and adds Target Index keys, and what it adds
\* are candidates built from the indexes as they were before the round.
C16_AdditiveGrowth ==
    [][result'.op = "increase_max_score" =>
         /\ \A sc \in DOMAIN MinSExprs \ {max_score + 1} :
               sc \in DOMAIN MinSExprs' /\ MinSExprs'[sc] = MinSExprs[sc]
         /\ \A v \in DOMAIN Targs :
               v \in DOMAIN Targs' /\ Targs'[v] = Targs[v]
         /\ DOMAIN MinSExprs' \subseteq DOMAIN MinSExprs \cup {max_score + 1}
         /\ (max_score + 1) \in DOMAIN MinSExprs =>
               /\ (max_score + 1) \in DOMAIN MinSExprs'
               /\ Len(MinSExprs'[max_score + 1]) >= Len(MinSExprs[max_score + 1])
               /\ SubSeq(MinSExprs'[max_score + 1], 1, Len(MinSExprs[max_score + 1]))
                     = MinSExprs[max_score + 1]
         /\ \A v \in DOMAIN Targs' \ DOMAIN Targs :
               /\ Targs'[v] \in Candidates
               /\ Targs'[v].score = max_score + 1]_vars

\* A round has just returned after appending several expressions to the
\* bucket of the new ceiling, above buckets that already held several.
C16_Witness ==
    /\ result.op = "increase_max_score" /\ result.raised = "none"
    /\ rounds >= 3
    /\ Len(MinSExprs[max_score]) >= 2
    /\ Len(MinSExprs[max_score - 1]) >= 2

\* new_exprs of the round that was started at ceiling c, rebuilt from the
\* buckets of scores 1..c, which later rounds leave as they were
CandidatesAt(c) ==
    LET new_exprs == NewExprs([Self EXCEPT !.max_score = c])
    IN {new_exprs[i] : i \in 1..Len(new_exprs)}

\* A candidate e1 // e2 or e1 % e2 whose right operand evaluates to 0 and
\* whose evaluation raises the division-by-zero error
IsDivisionByZero(c) ==
    /\ IsBinaryString(c.string)
    /\ BinarySymbol(c.string) \in {"//", "%"}
    /\ EvalString(RightOperand(c.string)) = Ok(0)
    /\ evaluate(c).raised = "ZeroDivisionError"

\* C17 (division by zero surfaces): rounds are run until one raises; by then
\* some round has generated a floor division or a modulo by an operand of
\* value 0, whose division-by-zero error reaches the caller.
C17_DivisionByZeroSurfaces ==
    (result.op = "increase_max_score" /\ result.raised # "none") =>
        \E c \in 1..max_score : \E cand \in CandidatesAt(c) : IsDivisionByZero(cand)

\* Number of tokens of a string that are in a given set
RECURSIVE CountTokens(_, _)
CountTokens(str, S) ==
    IF str = <<>> THEN 0
    ELSE (IF Head(str) \in S THEN 1 ELSE 0) + CountTokens(Tail(str), S)

\* Every operator application writes one operator symbol into the string,
\* and every use of the base expression writes one token True.
NumOperators(e) == CountTokens(e.string, UnarySymbols \cup BinarySymbols)

NumTrue(e) == CountTokens(e.string, {"True"})

\* C18 as stated (score counts operators): the score of every expression the
\* optimizer holds or generates equals the number of operator applications
\* in it.
C18_ScoreCountsOperators ==
    \A e \in Admitted \cup Candidates : e.score = NumOperators(e)

\* C18 amended (score is the size of the expression tree): the score of
\* every expression the optimizer holds or generates equals the number of
\* operator applications in it plus the number of occurrences of True in it.
C18_ScoreCountsNodes ==
    \A e \in Admitted \cup Candidates : e.score = NumOperators(e) + NumTrue(e)

\* An admitted binary expression: one operator more than its two operands
\* together, which each contain True at least once.
C18_Witness ==
    \E e \in Admitted :
        /\ IsBinaryString(e.string)
        /\ NumTrue(e) >= 2
        /\ NumOperators(e) >= 2
        /\ e.score = NumOperators(e) + NumTrue(e)

\* C19 (round atomicity): a call of increase_max_score that raises leaves
\* the ceiling, the Score Index and the Target Index as they were before the
\* call, and no state has a bucket above the ceiling.
C19_RoundAtomicity ==
    [][(result'.op = "increase_max_score" /\ result'.raised # "none") =>
          /\ OptimizerState' = OptimizerState
          /\ \A sc \in DOMAIN MinSExprs' : sc <= max_score']_vars

\* C20 (no gaps): the Score Index has a non-empty bucket for every score from
\* 1 to the ceiling, and no call of increase_max_score or lookup of a score
\* up to the ceiling fails with a lookup error.
C20_NoGaps ==
    /\ \A sc \in 1..max_score :
          sc \in DOMAIN MinSExprs /\ Len(MinSExprs[sc]) > 0
    /\ GenerationDefined
    /\ result.op = "increase_max_score" => result.raised # "KeyError"
    /\ (result.op = "_get_score_exprs" /\ result.arg <= max_score) =>
          (result.raised = "none" /\ Len(result.exprs) > 0)

\* Five rounds have returned and the bucket of the ceiling they reached has
\* just been read.
C20_Witness ==
    /\ rounds = 5 /\ max_score = 6
    /\ result.op = "_get_score_exprs" /\ result.arg = max_score
    /\ Len(result.exprs) = Len(MinSExprs[max_score])

====
